---- MODULE Spec2Model ----
(***************************************************************************)
(* Model of stackfmt: formatting into a caller supplied byte buffer with   *)
(* truncation on a UTF-8 code point boundary (src/src/stackfmt.rs).        *)
(*                                                                         *)
(* Bytes are naturals 0..255.  A Rust slice is a TLA+ sequence, so the     *)
(* Rust index i is the TLA+ index i + 1.                                   *)
(***************************************************************************)
EXTENDS Integers, Sequences, FiniteSets

(***************************************************************************)
(* Bounds of the model.                                                    *)
(***************************************************************************)
MaxBuf == 5          \* longest caller buffer
MaxFragLen == 4      \* most bytes in one fragment
MaxWrites == 2       \* most write_str calls of one formatting operation
MaxRawLen == 5       \* longest raw byte sequence given to find_closest_boundary

(***************************************************************************)
(* Bit arithmetic on u8.                                                   *)
(***************************************************************************)
RECURSIVE BitAnd(_, _, _)
\* a & b on the lowest n bits
BitAnd(a, b, n) ==
    IF n = 0 THEN 0
    ELSE (IF a % 2 = 1 /\ b % 2 = 1 THEN 1 ELSE 0)
         + 2 * BitAnd(a \div 2, b \div 2, n - 1)

\* a plausible slip: tests only the top bit, so lead bytes count as continuation
is_not_first_utf8_topbit(ch) == BitAnd(ch, 128, 8) = 128

\* fn is_not_first_utf8(ch: u8) -> bool { (ch & 0xC0) == 0x80 }
is_not_first_utf8(ch) == BitAnd(ch, 192, 8) = 128

(***************************************************************************)
(* find_closest_boundary.  The result is a record:                         *)
(*   panic : the call panicked (failed assertion, index out of bounds or   *)
(*           usize subtraction below 0)                                    *)
(*   val   : the returned length (0 when panic)                            *)
(*   reads : number of bytes the backward loop inspected                   *)
(* dbg tells whether debug assertions are compiled in.                     *)
(***************************************************************************)
RECURSIVE BoundaryLoop(_, _, _)
\* loop { if !is_not_first_utf8(raw_string[res_len - 1]) { break res_len - 1; }
\*        res_len -= 1; }
\* res_len - 1 with res_len = 0 panics on overflow checks, and wraps to
\* usize::MAX without them, which the slice index then rejects: a panic in
\* every build.
BoundaryLoop(raw_string, res_len, reads) ==
    IF res_len = 0 \/ res_len - 1 >= Len(raw_string)
    THEN [panic |-> TRUE, val |-> 0, reads |-> reads]
    ELSE IF ~is_not_first_utf8(raw_string[(res_len - 1) + 1])
         THEN [panic |-> FALSE, val |-> res_len - 1, reads |-> reads + 1]
         ELSE BoundaryLoop(raw_string, res_len - 1, reads + 1)

\* a plausible slip: no boundary search, cut at max_len
find_closest_boundary_nocheck(raw_string, max_len, dbg) ==
    [panic |-> FALSE, val |-> max_len, reads |-> 0]

\* a plausible slip: the loop breaks with res_len instead of res_len - 1
RECURSIVE BoundaryLoop_off(_, _, _)
BoundaryLoop_off(raw_string, res_len, reads) ==
    IF res_len = 0 \/ res_len - 1 >= Len(raw_string)
    THEN [panic |-> TRUE, val |-> 0, reads |-> reads]
    ELSE IF ~is_not_first_utf8(raw_string[(res_len - 1) + 1])
         THEN [panic |-> FALSE, val |-> res_len, reads |-> reads + 1]
         ELSE BoundaryLoop_off(raw_string, res_len - 1, reads + 1)

find_closest_boundary_off(raw_string, max_len, dbg) ==
    IF dbg /\ ~(max_len < Len(raw_string))
    THEN [panic |-> TRUE, val |-> 0, reads |-> 0]
    ELSE IF max_len = 0
    THEN [panic |-> FALSE, val |-> 0, reads |-> 0]
    ELSE IF max_len >= Len(raw_string)
    THEN [panic |-> TRUE, val |-> 0, reads |-> 0]
    ELSE IF ~is_not_first_utf8(raw_string[max_len + 1])
    THEN [panic |-> FALSE, val |-> max_len, reads |-> 0]
    ELSE BoundaryLoop_off(raw_string, max_len, 0)

\* a plausible slip: the max_len == 0 case is missing
find_closest_boundary_nozero(raw_string, max_len, dbg) ==
    IF dbg /\ ~(max_len < Len(raw_string))
    THEN [panic |-> TRUE, val |-> 0, reads |-> 0]
    ELSE IF max_len >= Len(raw_string)
    THEN [panic |-> TRUE, val |-> 0, reads |-> 0]
    ELSE IF ~is_not_first_utf8(raw_string[max_len + 1])
    THEN [panic |-> FALSE, val |-> max_len, reads |-> 0]
    ELSE BoundaryLoop(raw_string, max_len, 0)

\* a plausible slip: a fragment that does not fit is dropped whole
find_closest_boundary_drop(raw_string, max_len, dbg) ==
    [panic |-> FALSE, val |-> 0, reads |-> 0]

find_closest_boundary(raw_string, max_len, dbg) ==
    IF dbg /\ ~(max_len < Len(raw_string))
    THEN [panic |-> TRUE, val |-> 0, reads |-> 0]       \* debug_assert!
    ELSE IF max_len = 0
    THEN [panic |-> FALSE, val |-> 0, reads |-> 0]
    ELSE IF max_len >= Len(raw_string)
    THEN [panic |-> TRUE, val |-> 0, reads |-> 0]       \* raw_string[max_len]
    ELSE IF ~is_not_first_utf8(raw_string[max_len + 1])
    THEN [panic |-> FALSE, val |-> max_len, reads |-> 0]
    ELSE BoundaryLoop(raw_string, max_len, 0)

(***************************************************************************)
(* The Sink: struct WriteTo { buffer, used, overflow }.  An operation on   *)
(* it returns the new value of the struct together with its outcome.       *)
(***************************************************************************)
\* WriteTo::new
new(buf) == [buffer |-> buf, used |-> 0, overflow |-> FALSE]

\* a plausible slip: the view is the whole buffer, not buffer[..used]
as_str_whole(self) ==
    [panic |-> FALSE, val |-> self.buffer]

\* WriteTo::as_str: &self.buffer[..self.used], taken as a string unchecked
as_str(self) ==
    IF self.used > Len(self.buffer)
    THEN [panic |-> TRUE, val |-> <<>>]
    ELSE [panic |-> FALSE, val |-> SubSeq(self.buffer, 1, self.used)]

\* a plausible slip: the copy goes to the start of the buffer, not to the cursor
copy_from_slice_start(dst, at, src, n) ==
    [i \in 1..Len(dst) |-> IF i <= n THEN src[i] ELSE dst[i]]

\* dst[at .. at + n].copy_from_slice(&src[..n])
copy_from_slice(dst, at, src, n) ==
    [i \in 1..Len(dst) |-> IF at < i /\ i <= at + n THEN src[i - at] ELSE dst[i]]

\* a plausible slip: > for >=, a fragment filling the buffer exactly is truncated
fits_strict(remaining_len, raw_len) == remaining_len > raw_len

\* if remaining_buf.len() >= raw_s.len()
fits(remaining_len, raw_len) == remaining_len >= raw_len

\* the branch that copies the whole fragment
copy_whole(self, raw_s) ==
    [self    |-> [self EXCEPT !.buffer = copy_from_slice(self.buffer, self.used,
                                                         raw_s, Len(raw_s)),
                              !.used = self.used + Len(raw_s)],
     ret     |-> "Ok",
     panic   |-> FALSE,
     calls   |-> <<>>]

\* a plausible slip: the truncating branch reports the truncation as an error
truncate_ret_err == "Err"

\* the value write_str returns after truncating: Ok(())
truncate_ret == "Ok"

\* a plausible slip: used advances by the fragment's length, not by the boundary
advance_full(boundary_size, raw_len) == raw_len

\* self.used += boundary_size
advance(boundary_size, raw_len) == boundary_size

\* the branch that truncates: overflow is set before anything can panic
copy_truncated(self, raw_s, dbg) ==
    LET remaining_len == Len(self.buffer) - self.used
        b == find_closest_boundary(raw_s, remaining_len, dbg)
        call == [raw_string |-> raw_s, max_len |-> remaining_len, out |-> b]
        set == [self EXCEPT !.overflow = TRUE]
    IN  IF b.panic \/ b.val > remaining_len \/ b.val > Len(raw_s)
        THEN [self |-> set, ret |-> "Ok", panic |-> TRUE, calls |-> <<call>>]
        ELSE [self  |-> [set EXCEPT !.buffer = copy_from_slice(self.buffer, self.used,
                                                               raw_s, b.val),
                                    !.used = self.used + advance(b.val, Len(raw_s))],
              ret   |-> truncate_ret,
              panic |-> FALSE,
              calls |-> <<call>>]

\* a plausible slip: no early return once overflow is set
skip_never(self) == FALSE

\* if self.overflow { return Ok(()); }
skip(self) == self.overflow

\* WriteTo::write_str
write_str(self, s, dbg) ==
    IF skip(self)
    THEN [self |-> self, ret |-> "Ok", panic |-> FALSE, calls |-> <<>>]
    ELSE IF self.used > Len(self.buffer)       \* &mut self.buffer[self.used..]
    THEN [self |-> self, ret |-> "Ok", panic |-> TRUE, calls |-> <<>>]
    ELSE IF fits(Len(self.buffer) - self.used, Len(s))
    THEN copy_whole(self, s)
    ELSE copy_truncated(self, s, dbg)

\* a plausible slip: the Err arm returns the partial string as well
fmt_truncate_keep(w, engine_ret) == as_str(w)

\* fmt_truncate: match fmt::write(&mut w, args) { Ok(_) => w.as_str(), Err(_) => "" }
fmt_truncate(w, engine_ret) ==
    IF engine_ret = "Ok" THEN as_str(w) ELSE [panic |-> FALSE, val |-> <<>>]

(***************************************************************************)
(* Inputs.  A &str is valid UTF-8 by construction: a fragment is a         *)
(* concatenation of code points, one of each encoded length.               *)
(***************************************************************************)
\* ' ' = 20, U+00E9 = C3 A9, U+20AC = E2 82 AC, U+10348 = F0 90 8D 88
Chars == { <<32>>, <<195, 169>>, <<226, 130, 172>>, <<240, 144, 141, 136>> }

RECURSIVE Strs(_)
\* the strings over Chars of at most n bytes
Strs(n) ==
    { <<>> } \cup UNION { { c \o s : s \in Strs(n - Len(c)) } :
                         c \in { d \in Chars : Len(d) <= n } }

\* the fragments the formatting engine hands to write_str
Fragments == Strs(MaxFragLen)

\* what the caller's buffer holds before the operation: zeroes as in the
\* tests, or bytes left behind by earlier use (here continuation bytes)
InitFill == { 0, 172 }

RECURSIVE Filled(_, _)
\* [b; n]
Filled(b, n) == IF n = 0 THEN <<>> ELSE <<b>> \o Filled(b, n - 1)

\* the result record of a find_closest_boundary call that was not made
NoOut == [panic |-> FALSE, val |-> 0, reads |-> 0]

(***************************************************************************)
(* State.                                                                  *)
(*   buffer, used, overflow : the fields of the WriteTo of the operation   *)
(*   pc        : "writing" while fmt::write runs, "done" when fmt_truncate *)
(*               has returned, "panicked" when the operation panicked      *)
(*   ret       : what the latest write_str returned ("None" before any)    *)
(*   fmt_ret   : what fmt::write returned ("None" while it runs)           *)
(*   engine_failed : an argument's own formatter reported an error         *)
(*   result    : the string fmt_truncate returned                          *)
(*   written   : the concatenation of all fragments passed to write_str    *)
(*   nwrites   : number of write_str calls                                 *)
(*   debug_assertions : whether debug_assert! is compiled in               *)
(*   raw_string, max_len, fcb_out, fcb_calls : arguments and result of the *)
(*               latest find_closest_boundary call, and the number of calls*)
(*   runs      : two operations fed the same fragments side by side        *)
(*               (SpecPair only), each [buffer, used, overflow, pc, result]*)
(*   ch, not_first : argument and result of is_not_first_utf8 (SpecByte    *)
(*               only; not_first is FALSE before the call)                 *)
(***************************************************************************)
VARIABLES buffer, used, overflow, pc, ret, fmt_ret, engine_failed, result,
          written, nwrites, debug_assertions,
          raw_string, max_len, fcb_out, fcb_calls,
          runs, ch, not_first

vars == << buffer, used, overflow, pc, ret, fmt_ret, engine_failed, result,
           written, nwrites, debug_assertions,
           raw_string, max_len, fcb_out, fcb_calls,
           runs, ch, not_first >>

\* the state that only SpecPair and SpecByte use
aux == << runs, ch, not_first >>

\* aux where it is not used
AuxIdle ==
    /\ runs = <<>>
    /\ ch = 0
    /\ not_first = FALSE

\* the WriteTo of the running operation
w == [buffer |-> buffer, used |-> used, overflow |-> overflow]

\* fmt_truncate entered: let mut w = WriteTo::new(buffer); fmt::write starts
Init ==
    /\ \E n \in 0..MaxBuf, b \in InitFill :
          /\ buffer = new(Filled(b, n)).buffer
          /\ used = new(Filled(b, n)).used
          /\ overflow = new(Filled(b, n)).overflow
    /\ pc = "writing"
    /\ ret = "None"
    /\ fmt_ret = "None"
    /\ engine_failed = FALSE
    /\ result = <<>>
    /\ written = <<>>
    /\ nwrites = 0
    /\ debug_assertions \in BOOLEAN
    /\ raw_string = <<>>
    /\ max_len = 0
    /\ fcb_out = NoOut
    /\ fcb_calls = 0
    /\ AuxIdle

\* fmt::write hands the next fragment to w.write_str(s)?; an Err from
\* write_str ends fmt::write with Err
WriteFragment(s) ==
    /\ pc = "writing"
    /\ nwrites < MaxWrites
    /\ LET r == write_str(w, s, debug_assertions)
           out == fmt_truncate(r.self, "Err")
       IN  /\ buffer' = r.self.buffer
           /\ used' = r.self.used
           /\ overflow' = r.self.overflow
           /\ written' = written \o s
           /\ nwrites' = nwrites + 1
           /\ IF r.calls = <<>>
              THEN UNCHANGED << raw_string, max_len, fcb_out, fcb_calls >>
              ELSE /\ raw_string' = r.calls[1].raw_string
                   /\ max_len' = r.calls[1].max_len
                   /\ fcb_out' = r.calls[1].out
                   /\ fcb_calls' = fcb_calls + 1
           /\ IF r.panic
              THEN /\ pc' = "panicked"
                   /\ UNCHANGED << ret, fmt_ret, result >>
              ELSE IF r.ret = "Err"
              THEN /\ ret' = r.ret
                   /\ fmt_ret' = "Err"
                   /\ pc' = IF out.panic THEN "panicked" ELSE "done"
                   /\ result' = out.val
              ELSE /\ ret' = r.ret
                   /\ pc' = "writing"
                   /\ UNCHANGED << fmt_ret, result >>
    /\ UNCHANGED << engine_failed, debug_assertions >>
    /\ UNCHANGED aux

\* fmt::write returns Ok(()) after the last fragment; fmt_truncate returns
EngineOk ==
    /\ pc = "writing"
    /\ LET out == fmt_truncate(w, "Ok")
       IN  /\ fmt_ret' = "Ok"
           /\ pc' = IF out.panic THEN "panicked" ELSE "done"
           /\ result' = out.val
    /\ UNCHANGED << buffer, used, overflow, ret, engine_failed, written, nwrites,
                    debug_assertions, raw_string, max_len, fcb_out, fcb_calls >>
    /\ UNCHANGED aux

\* an argument's formatter returns Err, fmt::write returns Err; fmt_truncate
\* returns
EngineErr ==
    /\ pc = "writing"
    /\ LET out == fmt_truncate(w, "Err")
       IN  /\ fmt_ret' = "Err"
           /\ engine_failed' = TRUE
           /\ pc' = IF out.panic THEN "panicked" ELSE "done"
           /\ result' = out.val
    /\ UNCHANGED << buffer, used, overflow, ret, written, nwrites,
                    debug_assertions, raw_string, max_len, fcb_out, fcb_calls >>
    /\ UNCHANGED aux

Next ==
    \/ \E s \in Fragments : WriteFragment(s)
    \/ EngineOk
    \/ EngineErr

Spec == Init /\ [][Next]_vars

TypeOK ==
    /\ used \in Nat
    /\ overflow \in BOOLEAN
    /\ pc \in { "writing", "done", "panicked" }
    /\ ret \in { "None", "Ok", "Err" }
    /\ fmt_ret \in { "None", "Ok", "Err" }

(***************************************************************************)
(* find_closest_boundary on its own: the arguments are drawn from all      *)
(* byte sequences over RawBytes (well formed or not) and from the vectors  *)
(* of the unit tests; max_len ranges up to the length, one beyond the      *)
(* precondition.                                                           *)
(***************************************************************************)
\* ' ', lead bytes C3 E2 F0, continuation bytes 90 AC
RawBytes == { 32, 195, 226, 240, 144, 172 }

RECURSIVE RawSeqs(_)
\* the byte sequences over RawBytes of at most n bytes
RawSeqs(n) ==
    IF n = 0 THEN { <<>> }
    ELSE RawSeqs(n - 1) \cup { s \o <<b>> : s \in RawSeqs(n - 1), b \in RawBytes }

\* tests::find_closest_boundary_test_unicode: U+10348 U+20AC ' '
TestUnicode == << 240, 144, 141, 136, 226, 130, 172, 32 >>

\* tests::find_closest_boundary_test_ascii: b"Hello"
TestAscii == << 72, 101, 108, 108, 111 >>

RawInputs == RawSeqs(MaxRawLen) \cup { TestUnicode, TestAscii }

InitBoundary ==
    /\ raw_string \in RawInputs
    /\ max_len \in 0..Len(raw_string)
    /\ debug_assertions \in BOOLEAN
    /\ fcb_out = NoOut
    /\ fcb_calls = 0
    /\ pc = "boundary"
    /\ buffer = <<>>
    /\ used = 0
    /\ overflow = FALSE
    /\ ret = "None"
    /\ fmt_ret = "None"
    /\ engine_failed = FALSE
    /\ result = <<>>
    /\ written = <<>>
    /\ nwrites = 0
    /\ AuxIdle

\* find_closest_boundary(raw_string, max_len) is called and returns or panics
CallBoundary ==
    /\ pc = "boundary"
    /\ LET b == find_closest_boundary(raw_string, max_len, debug_assertions)
       IN  /\ fcb_out' = b
           /\ fcb_calls' = fcb_calls + 1
           /\ pc' = IF b.panic THEN "panicked" ELSE "returned"
    /\ UNCHANGED << buffer, used, overflow, ret, fmt_ret, engine_failed, result,
                    written, nwrites, debug_assertions, raw_string, max_len >>
    /\ UNCHANGED aux

NextBoundary == CallBoundary

SpecBoundary == InitBoundary /\ [][NextBoundary]_vars

(***************************************************************************)
(* Well-formed UTF-8 (the validity a Rust str guarantees), stated on the   *)
(* byte ranges of the Unicode standard and not through the bit test of the *)
(* code.                                                                   *)
(***************************************************************************)
InRange(b, lo, hi) == lo <= b /\ b <= hi

\* a continuation byte: 80..BF
IsContinuation(b) == InRange(b, 128, 191)

\* the length of the well-formed code point at the head of s, 0 if there is none
CharLenAt(s) ==
    IF s = <<>> THEN 0
    ELSE IF s[1] <= 127 THEN 1
    ELSE IF /\ Len(s) >= 2
            /\ InRange(s[1], 194, 223)
            /\ IsContinuation(s[2])
    THEN 2
    ELSE IF /\ Len(s) >= 3
            /\ IsContinuation(s[3])
            /\ \/ s[1] = 224 /\ InRange(s[2], 160, 191)
               \/ InRange(s[1], 225, 236) /\ IsContinuation(s[2])
               \/ s[1] = 237 /\ InRange(s[2], 128, 159)
               \/ InRange(s[1], 238, 239) /\ IsContinuation(s[2])
    THEN 3
    ELSE IF /\ Len(s) >= 4
            /\ IsContinuation(s[3])
            /\ IsContinuation(s[4])
            /\ \/ s[1] = 240 /\ InRange(s[2], 144, 191)
               \/ InRange(s[1], 241, 243) /\ IsContinuation(s[2])
               \/ s[1] = 244 /\ InRange(s[2], 128, 143)
    THEN 4
    ELSE 0

RECURSIVE IsUtf8(_)
IsUtf8(s) ==
    \/ s = <<>>
    \/ /\ CharLenAt(s) > 0
       /\ IsUtf8(SubSeq(s, CharLenAt(s) + 1, Len(s)))

\* n is a code point boundary of s: n = 0 or the byte s[n] is no continuation byte
IsBoundary(s, n) == n = 0 \/ (n < Len(s) /\ ~IsContinuation(s[n + 1])) \/ n = Len(s)

\* the largest code point boundary of s that is <= m
LargestBoundary(s, m) ==
    CHOOSE n \in 0..m : /\ IsBoundary(s, n)
                        /\ \A k \in (n + 1)..m : ~IsBoundary(s, k)

\* the call of find_closest_boundary has returned or panicked
Called == fcb_calls = 1 /\ pc \in { "returned", "panicked" }

(***************************************************************************)
(* C8: for valid UTF-8 s and max_len < len(s), find_closest_boundary       *)
(* returns the largest n <= max_len that is a code point boundary of s     *)
(* (the prefix s[0..n] is then valid UTF-8 itself); on the vector of the   *)
(* unit test F0 90 8D 88 E2 82 AC 20 it returns 0,0,0,0,4,4,4,7.           *)
(***************************************************************************)
C8_LargestBoundary ==
    (Called /\ IsUtf8(raw_string) /\ max_len < Len(raw_string)) =>
        /\ ~fcb_out.panic
        /\ fcb_out.val = LargestBoundary(raw_string, max_len)
        /\ IsUtf8(SubSeq(raw_string, 1, fcb_out.val))
        /\ raw_string = TestUnicode =>
              fcb_out.val = << 0, 0, 0, 0, 4, 4, 4, 7 >>[max_len + 1]

\* the test vector cut inside U+20AC: the boundary is walked back from 6 to 4
C8_Witness ==
    /\ Called
    /\ raw_string = TestUnicode
    /\ max_len = 6
    /\ fcb_out = [panic |-> FALSE, val |-> 4, reads |-> 2]

(***************************************************************************)
(* C9 as stated: for every byte sequence raw and every max_len < len(raw)  *)
(* find_closest_boundary does not fail and returns r with 0 <= r <=        *)
(* max_len.  It fails when raw[0..max_len] are all continuation bytes.     *)
(***************************************************************************)
C9_AnyBytes ==
    (Called /\ max_len < Len(raw_string)) =>
        /\ ~fcb_out.panic
        /\ 0 <= fcb_out.val
        /\ fcb_out.val <= max_len

(***************************************************************************)
(* C9 amended: for every byte sequence raw and every max_len < len(raw)    *)
(* such that max_len = 0 or one of the bytes raw[0..=max_len] is not a     *)
(* continuation byte (as in every valid UTF-8 sequence, whose first byte   *)
(* is none), find_closest_boundary does not fail and returns r with        *)
(* 0 <= r <= max_len.                                                      *)
(***************************************************************************)
C9_InRange ==
    (/\ Called
     /\ max_len < Len(raw_string)
     /\ \/ max_len = 0
        \/ \E i \in 0..max_len : ~IsContinuation(raw_string[i + 1])) =>
        /\ ~fcb_out.panic
        /\ 0 <= fcb_out.val
        /\ fcb_out.val <= max_len

\* a malformed sequence (a lead byte and nothing but continuation bytes, cut
\* before its end): the loop walks back to the lead byte and returns 0
C9_Witness ==
    /\ Called
    /\ raw_string = << 226, 172, 172, 172, 144 >>
    /\ ~IsUtf8(raw_string)
    /\ max_len = 4
    /\ fcb_out = [panic |-> FALSE, val |-> 0, reads |-> 4]

(***************************************************************************)
(* Properties of the Sink and of fmt_truncate, under Spec.                 *)
(***************************************************************************)
\* buffer[0..used]
Prefix == SubSeq(buffer, 1, used)

\* fmt_truncate has returned what fmt::write left in the Sink
ReturnedOk == pc = "done" /\ fmt_ret = "Ok"

\* the longest prefix of s that is valid UTF-8 and has at most n bytes
LongestValidPrefix(s, n) ==
    LET m == IF n < Len(s) THEN n ELSE Len(s)
        k == CHOOSE i \in 0..m : /\ IsUtf8(SubSeq(s, 1, i))
                                 /\ \A j \in (i + 1)..m : ~IsUtf8(SubSeq(s, 1, j))
    IN  SubSeq(s, 1, k)

(***************************************************************************)
(* C1: for every buffer length and every sequence of valid UTF-8           *)
(* fragments, after every write_str call buffer[0..used] is valid UTF-8,   *)
(* and so is the string fmt_truncate returns.                              *)
(***************************************************************************)
C1_ValidUtf8 ==
    /\ used <= Len(buffer)
    /\ IsUtf8(Prefix)
    /\ pc = "done" => IsUtf8(result)

\* a multi-byte code point did not fit: the cut backed off and left capacity
C1_Witness ==
    /\ ReturnedOk
    /\ overflow
    /\ 0 < used
    /\ used < Len(buffer)
    /\ fcb_out.reads > 0
    /\ result = Prefix

(***************************************************************************)
(* C2: if the fragments written have more bytes in total than the buffer,  *)
(* buffer[0..used] after the last write, and with it the result of         *)
(* fmt_truncate, is the longest prefix of their concatenation that is      *)
(* valid UTF-8 and has at most as many bytes as the buffer.                *)
(***************************************************************************)
C2_LongestPrefix ==
    Len(written) > Len(buffer) =>
        /\ used <= Len(buffer)
        /\ Prefix = LongestValidPrefix(written, Len(buffer))
        /\ ReturnedOk => result = LongestValidPrefix(written, Len(buffer))

\* a fragment fits, the next is cut inside after its first code point
C2_Witness ==
    /\ ReturnedOk
    /\ nwrites = 2
    /\ fcb_calls = 1
    /\ fcb_out.val > 0
    /\ max_len > fcb_out.val
    /\ Len(written) > Len(buffer)
    /\ result = LongestValidPrefix(written, Len(buffer))
    /\ Len(result) > fcb_out.val

(***************************************************************************)
(* C3: if the fragments written have at most as many bytes in total as the *)
(* buffer (also when they fill it exactly), the result of fmt_truncate is  *)
(* their concatenation, byte for byte.                                     *)
(***************************************************************************)
C3_ExactWhenFits ==
    Len(written) <= Len(buffer) =>
        /\ used = Len(written)
        /\ Prefix = written
        /\ ReturnedOk => result = written

\* several non-empty fragments that fill the buffer exactly
C3_Witness ==
    /\ ReturnedOk
    /\ nwrites >= 2
    /\ Len(buffer) > 0
    /\ Len(written) = Len(buffer)
    /\ result = written
    /\ ~overflow

(***************************************************************************)
(* C4: in every reachable state of a Sink 0 <= used <= buffer length.      *)
(***************************************************************************)
C4_UsedInBuffer ==
    /\ 0 <= used
    /\ used <= Len(buffer)

\* after a truncating write and a write after it, with capacity left over
C4_Witness ==
    /\ pc = "writing"
    /\ nwrites = MaxWrites
    /\ overflow
    /\ used < Len(buffer)
    /\ Len(written) > Len(buffer) + MaxFragLen

(***************************************************************************)
(* C5: no operation panics: for every buffer length (0 too) and every      *)
(* sequence of valid UTF-8 fragments (longer than the buffer, empty),      *)
(* every slice range and index of write_str, find_closest_boundary and     *)
(* as_str is in bounds and no index subtraction goes below 0.              *)
(***************************************************************************)
C5_NoPanic ==
    /\ pc # "panicked"
    /\ ~fcb_out.panic

\* a fragment longer than the whole buffer was cut after a backward walk
C5_Witness ==
    /\ pc = "done"
    /\ nwrites = 1
    /\ Len(written) > Len(buffer)
    /\ fcb_calls = 1
    /\ fcb_out.reads = 3
    /\ used = 0

(***************************************************************************)
(* C6: if the formatting engine reports failure, after any number of       *)
(* fragments written, fmt_truncate returns the empty string; if it reports *)
(* success fmt_truncate returns buffer[0..used].                           *)
(***************************************************************************)
C6_EngineResult ==
    pc = "done" =>
        /\ fmt_ret \in { "Ok", "Err" }
        /\ fmt_ret = "Err" => result = <<>>
        /\ fmt_ret = "Ok" => result = Prefix

\* the engine failed after fragments had been written into the buffer
C6_Witness ==
    /\ pc = "done"
    /\ fmt_ret = "Err"
    /\ engine_failed
    /\ nwrites >= 2
    /\ used > 0
    /\ result = <<>>

(***************************************************************************)
(* C7: write_str reports success for every fragment in every Sink state,   *)
(* so fmt::write fails only when the engine itself fails, and after a      *)
(* truncation alone the caller receives the truncated string.              *)
(***************************************************************************)
C7_WriteNeverFails ==
    /\ ret # "Err"
    /\ (nwrites > 0 /\ pc # "panicked") => ret = "Ok"
    /\ fmt_ret = "Err" => engine_failed
    /\ (pc = "done" /\ overflow /\ ~engine_failed) =>
          /\ fmt_ret = "Ok"
          /\ result = Prefix

\* truncated, then a write in the overflowed state, and a non-empty result
C7_Witness ==
    /\ ReturnedOk
    /\ overflow
    /\ ~engine_failed
    /\ ret = "Ok"
    /\ nwrites > 1
    /\ result # <<>>
    /\ Len(result) < Len(written)

(***************************************************************************)
(* C10: once overflow is true it is never reset, and every later write_str *)
(* call, for any fragment (empty, or fitting the capacity left), leaves    *)
(* the buffer contents, used and overflow unchanged and reports success.   *)
(***************************************************************************)
C10_OverflowFrozen ==
    [][overflow =>
          /\ overflow'
          /\ buffer' = buffer
          /\ used' = used
          /\ nwrites' # nwrites => (ret' = "Ok" /\ pc' = "writing")]_vars

\* after the truncating write a fragment of one byte was written, which the
\* capacity left over would have held
C10_Witness ==
    /\ overflow
    /\ pc = "writing"
    /\ used < Len(buffer)
    /\ fcb_calls = 1
    /\ Len(written) > 0
    /\ written[Len(written)] = 32
    /\ raw_string[Len(raw_string)] # 32
    /\ ret = "Ok"

(***************************************************************************)
(* Steps of Spec seen as write_str calls.                                  *)
(***************************************************************************)
\* the step is a write_str call
IsWrite == nwrites' = nwrites + 1

\* the fragment the call was given
WrittenFragment == SubSeq(written', Len(written) + 1, Len(written'))

\* the step called find_closest_boundary
CallsBoundary == fcb_calls' # fcb_calls

(***************************************************************************)
(* C11: the precondition max_len < raw_string.len() holds at every call of *)
(* find_closest_boundary made by write_str: it is called only in the       *)
(* truncating branch, on the fragment, with max_len = buffer length - used *)
(* strictly below the fragment's length, and never for a fragment that     *)
(* fits (exactly or not).                                                  *)
(***************************************************************************)
C11_PreconditionAtCall ==
    [][IsWrite =>
          /\ CallsBoundary =>
                /\ ~overflow
                /\ raw_string' = WrittenFragment
                /\ max_len' = Len(buffer) - used
                /\ max_len' < Len(raw_string')
                /\ ~fcb_out'.panic
          /\ Len(WrittenFragment) <= Len(buffer) - used => ~CallsBoundary]_vars

\* with debug assertions on, a fragment one byte too long for the capacity
\* left after an earlier write was cut
C11_Witness ==
    /\ debug_assertions
    /\ pc = "done"
    /\ nwrites = 2
    /\ fcb_calls = 1
    /\ max_len > 0
    /\ max_len = Len(raw_string) - 1
    /\ Len(written) > Len(raw_string)

(***************************************************************************)
(* C12: for every valid UTF-8 byte sequence and max_len below its length   *)
(* the backward loop of find_closest_boundary terminates after inspecting  *)
(* at most 3 bytes (indices max_len-1 down to max_len-3) and reads no      *)
(* index below 0: when it ran, it returns max_len less the number of bytes *)
(* it inspected.                                                           *)
(***************************************************************************)
C12_LoopBounded ==
    (Called /\ IsUtf8(raw_string) /\ max_len < Len(raw_string)) =>
        /\ ~fcb_out.panic
        /\ fcb_out.reads <= 3
        /\ max_len - fcb_out.reads >= 0
        /\ fcb_out.reads > 0 =>
              /\ fcb_out.val = max_len - fcb_out.reads
              /\ IsContinuation(raw_string[max_len + 1])
              /\ \A i \in (fcb_out.val + 1)..max_len : IsContinuation(raw_string[i + 1])
              /\ ~IsContinuation(raw_string[fcb_out.val + 1])

\* the test vector cut before the last byte of U+10348: three bytes inspected,
\* the last of them at index 0
C12_Witness ==
    /\ Called
    /\ raw_string = TestUnicode
    /\ max_len = 3
    /\ fcb_out = [panic |-> FALSE, val |-> 0, reads |-> 3]

(***************************************************************************)
(* C13: find_closest_boundary(raw, max_len) returns exactly max_len when   *)
(* max_len = 0 or the byte raw[max_len] is not a continuation byte; for an *)
(* ASCII-only sequence it returns max_len for every max_len < len(raw).    *)
(***************************************************************************)
C13_ExactCut ==
    (Called /\ max_len < Len(raw_string)) =>
        /\ (max_len = 0 \/ ~IsContinuation(raw_string[max_len + 1])) =>
              /\ ~fcb_out.panic
              /\ fcb_out.val = max_len
              /\ fcb_out.reads = 0
        /\ (\A i \in 1..Len(raw_string) : raw_string[i] <= 127) =>
              /\ ~fcb_out.panic
              /\ fcb_out.val = max_len

\* b"Hello" cut at 4, as in the unit test
C13_Witness ==
    /\ Called
    /\ raw_string = TestAscii
    /\ max_len = 4
    /\ fcb_out = [panic |-> FALSE, val |-> 4, reads |-> 0]

(***************************************************************************)
(* C14: with a zero-length buffer, for every sequence of fragments used    *)
(* stays 0 after every write, the first non-empty fragment sets overflow   *)
(* (empty ones before it do not), and the result of fmt_truncate is the    *)
(* empty string.                                                           *)
(***************************************************************************)
C14_ZeroBuffer ==
    Len(buffer) = 0 =>
        /\ used = 0
        /\ pc # "panicked"
        /\ overflow <=> written # <<>>
        /\ pc = "done" => result = <<>>

\* an empty fragment, then a non-empty one, written to a buffer of length 0
C14_Witness ==
    /\ Len(buffer) = 0
    /\ ReturnedOk
    /\ nwrites = 2
    /\ overflow
    /\ fcb_calls = 1
    /\ raw_string = written
    /\ max_len = 0
    /\ result = <<>>

(***************************************************************************)
(* C15: in every reachable Sink state overflow is true if and only if the  *)
(* fragments passed to write_str so far have more bytes in total than the  *)
(* buffer; equivalently overflow is false exactly when buffer[0..used] is  *)
(* their whole concatenation (a write filling the buffer exactly, or an    *)
(* empty fragment written to a full buffer, does not set overflow).        *)
(***************************************************************************)
C15_OverflowIffTooLong ==
    /\ overflow <=> Len(written) > Len(buffer)
    /\ used <= Len(buffer)
    /\ ~overflow <=> Prefix = written

\* the buffer was filled exactly and stayed without overflow
C15_Witness ==
    /\ pc = "writing"
    /\ nwrites = 2
    /\ Len(buffer) > 0
    /\ used = Len(buffer)
    /\ Prefix = written
    /\ ~overflow
    /\ fcb_calls = 0

(***************************************************************************)
(* C16: writes are append-only: a write_str call changes only the buffer   *)
(* bytes in [used_before, used_after), leaves every byte below used_before *)
(* and every byte at or beyond used_after unchanged, and never decreases   *)
(* used; after every write buffer[0..used] is a prefix of the              *)
(* concatenation of the fragments written so far and extends the prefix    *)
(* held before the write.                                                  *)
(***************************************************************************)
C16_AppendOnly ==
    [][IsWrite =>
          /\ used' >= used
          /\ used' <= Len(buffer')
          /\ Len(buffer') = Len(buffer)
          /\ \A i \in 1..Len(buffer) :
                (i <= used \/ i > used') => buffer'[i] = buffer[i]
          /\ used' <= Len(written')
          /\ SubSeq(buffer', 1, used') = SubSeq(written', 1, used')
          /\ SubSeq(buffer', 1, used) = SubSeq(buffer, 1, used)]_vars

\* two writes filled part of a buffer of continuation bytes: the bytes
\* beyond the cursor are the ones the caller had left there
C16_Witness ==
    /\ pc = "writing"
    /\ nwrites = 2
    /\ 1 < used
    /\ used < Len(buffer)
    /\ Prefix = written
    /\ written[1] # written[used]
    /\ \A i \in (used + 1)..Len(buffer) : buffer[i] = 172

(***************************************************************************)
(* Two fmt_truncate operations side by side: buffers of the same length    *)
(* with contents chosen independently, the same build, the same fragments  *)
(* and the same outcome of the engine.  Here written, nwrites, fmt_ret and *)
(* engine_failed are the input both share, pc is "pair" until both have    *)
(* ended, and runs[1], runs[2] hold the two operations.                    *)
(***************************************************************************)
\* fmt_truncate entered on buf
RunNew(buf) ==
    [buffer   |-> new(buf).buffer,
     used     |-> new(buf).used,
     overflow |-> new(buf).overflow,
     pc       |-> "writing",
     result   |-> <<>>]

\* the WriteTo of a run
RunSink(run) == [buffer |-> run.buffer, used |-> run.used, overflow |-> run.overflow]

\* fmt::write returned engine_ret: fmt_truncate returns
RunFinish(run, engine_ret) ==
    LET out == fmt_truncate(RunSink(run), engine_ret)
    IN  [run EXCEPT !.pc = IF out.panic THEN "panicked" ELSE "done",
                    !.result = out.val]

\* fmt::write hands s to write_str; an Err from it ends fmt::write with Err
RunWrite(run, s, dbg) ==
    IF run.pc # "writing" THEN run
    ELSE LET r == write_str(RunSink(run), s, dbg)
             next == [run EXCEPT !.buffer = r.self.buffer,
                                 !.used = r.self.used,
                                 !.overflow = r.self.overflow]
         IN  IF r.panic THEN [next EXCEPT !.pc = "panicked"]
             ELSE IF r.ret = "Err" THEN RunFinish(next, "Err")
             ELSE next

InitPair ==
    /\ \E n \in 0..MaxBuf, b1 \in InitFill, b2 \in InitFill :
          runs = << RunNew(Filled(b1, n)), RunNew(Filled(b2, n)) >>
    /\ debug_assertions \in BOOLEAN
    /\ pc = "pair"
    /\ written = <<>>
    /\ nwrites = 0
    /\ fmt_ret = "None"
    /\ engine_failed = FALSE
    /\ buffer = <<>>
    /\ used = 0
    /\ overflow = FALSE
    /\ ret = "None"
    /\ result = <<>>
    /\ raw_string = <<>>
    /\ max_len = 0
    /\ fcb_out = NoOut
    /\ fcb_calls = 0
    /\ ch = 0
    /\ not_first = FALSE

\* fmt::write is still running
PairWriting == pc = "pair" /\ \E i \in 1..2 : runs[i].pc = "writing"

\* the engine hands the same fragment to both
PairWrite(s) ==
    /\ PairWriting
    /\ nwrites < MaxWrites
    /\ runs' = [i \in 1..2 |-> RunWrite(runs[i], s, debug_assertions)]
    /\ written' = written \o s
    /\ nwrites' = nwrites + 1
    /\ UNCHANGED << buffer, used, overflow, pc, ret, fmt_ret, engine_failed, result,
                    debug_assertions, raw_string, max_len, fcb_out, fcb_calls,
                    ch, not_first >>

\* the engine ends with the same outcome in both
PairFinish(engine_ret) ==
    /\ PairWriting
    /\ runs' = [i \in 1..2 |-> IF runs[i].pc = "writing"
                               THEN RunFinish(runs[i], engine_ret)
                               ELSE runs[i]]
    /\ fmt_ret' = engine_ret
    /\ engine_failed' = (engine_ret = "Err")
    /\ pc' = "ended"
    /\ UNCHANGED << buffer, used, overflow, ret, result, written, nwrites,
                    debug_assertions, raw_string, max_len, fcb_out, fcb_calls,
                    ch, not_first >>

PairOk == PairFinish("Ok")

PairErr == PairFinish("Err")

NextPair ==
    \/ \E s \in Fragments : PairWrite(s)
    \/ PairOk
    \/ PairErr

SpecPair == InitPair /\ [][NextPair]_vars

(***************************************************************************)
(* C17: the result does not depend on the buffer's initial contents: two   *)
(* runs with the same buffer length and the same fragment sequence but     *)
(* different initial buffer bytes have the same used and the same overflow *)
(* after every write and end the same way with the same returned string.   *)
(***************************************************************************)
C17_ContentsIndependent ==
    pc \in { "pair", "ended" } =>
        /\ runs[1].used = runs[2].used
        /\ runs[1].overflow = runs[2].overflow
        /\ runs[1].pc = runs[2].pc
        /\ runs[1].result = runs[2].result
        /\ pc = "ended" => runs[1].pc = "done"

\* buffers that started with different bytes and still differ beyond the
\* cursor after a truncation returned the same non-empty string
C17_Witness ==
    /\ pc = "ended"
    /\ fmt_ret = "Ok"
    /\ nwrites = 2
    /\ runs[1].buffer # runs[2].buffer
    /\ runs[1].overflow
    /\ 0 < runs[1].used
    /\ runs[1].used < Len(runs[1].buffer)
    /\ runs[1].result = SubSeq(runs[1].buffer, 1, runs[1].used)
    /\ runs[2].result = runs[1].result

U8 == 0..255

InitByte ==
    /\ ch \in U8
    /\ not_first = FALSE
    /\ pc = "byte"
    /\ runs = <<>>
    /\ buffer = <<>>
    /\ used = 0
    /\ overflow = FALSE
    /\ ret = "None"
    /\ fmt_ret = "None"
    /\ engine_failed = FALSE
    /\ result = <<>>
    /\ written = <<>>
    /\ nwrites = 0
    /\ debug_assertions = FALSE
    /\ raw_string = <<>>
    /\ max_len = 0
    /\ fcb_out = NoOut
    /\ fcb_calls = 0

\* is_not_first_utf8(ch) is called and returns
CallByte ==
    /\ pc = "byte"
    /\ not_first' = is_not_first_utf8(ch)
    /\ pc' = "returned"
    /\ UNCHANGED << buffer, used, overflow, ret, fmt_ret, engine_failed, result,
                    written, nwrites, debug_assertions, raw_string, max_len,
                    fcb_out, fcb_calls, runs, ch >>

NextByte == CallByte

SpecByte == InitByte /\ [][NextByte]_vars

\* the top two bits of a byte, as a number 0..3
TopTwoBits(b) == b \div 64

(***************************************************************************)
(* C19: for every byte b in 0..255, is_not_first_utf8(b) is true if and    *)
(* only if (b & 0xC0) = 0x80, that is, the top two bits are 10 and b is in *)
(* 0x80..0xBF; it is false for ASCII bytes and for every lead byte of a    *)
(* multi-byte sequence (0x20, 0xE2, 0xF0 among them).                      *)
(***************************************************************************)
C19_ContinuationTest ==
    pc = "returned" =>
        /\ not_first \in BOOLEAN
        /\ not_first <=> TopTwoBits(ch) = 2
        /\ not_first <=> (128 <= ch /\ ch <= 191)
        /\ ch <= 127 => ~not_first
        /\ ch >= 192 => ~not_first
        /\ ch \in { 32, 226, 240 } => ~not_first
        /\ ch \in { 130, 172, 144, 141, 136 } => not_first

\* the largest continuation byte, BF
C19_Witness ==
    /\ pc = "returned"
    /\ ch = 191
    /\ not_first = TRUE

====
